---- MODULE Spec2Model ----
(***************************************************************************)
(* Bias metrics of the FAT* tutorial notebook: compute_auc, the three      *)
(* per-subgroup AUC functions and compute_bias_metrics_for_model.          *)
(*                                                                         *)
(* A dataframe is a sequence of rows; a row is a function from column      *)
(* names to values and carries its pandas index label in column "index".   *)
(* A model score is an integer; only the order of scores matters to AUC.   *)
(* An AUC is an exact fraction in lowest terms, or NaN.                    *)
(***************************************************************************)
EXTENDS Integers, Sequences, FiniteSets, TLC

\* ---------------------------------------------------------------- bounds
MaxLen == 4          \* longest label/score sequence handed to compute_auc
MaxScore == 2        \* scores are 0..MaxScore
MaxRecords == 3      \* most rows of a dataset
MaxSubgroups == 2    \* longest list of subgroups handed to the metrics
MaxRating == 1       \* ratings are the multiples of 1/(2 * MaxRating) in [0, 1]
MaxFloatRows == 1    \* most rows of a frame handed to convert_dataframe_to_bool
MaxSlack == 1        \* a run of equal rows is at most this long, or this far from MinRecords

\* ------------------------------------------------------ program constants
MinRecords == 100    \* an identity is kept when it has this many True records

\* ------------------------------------------------------- names of columns
TOXICITY_COLUMN == "toxicity"
MODEL_NAME == "fat_star_tutorial"
SUBGROUP_AUC == "subgroup_auc"
BACKGROUND_POSITIVE_SUBGROUP_NEGATIVE_AUC == "background_positive_subgroup_negative_auc"
BACKGROUND_NEGATIVE_SUBGROUP_POSITIVE_AUC == "background_negative_subgroup_positive_auc"

\* Two of the notebook's identity columns.
identity_columns == <<"male", "female">>

Subgroups == {identity_columns[i] : i \in 1..Len(identity_columns)}

Columns == Subgroups \cup {TOXICITY_COLUMN, MODEL_NAME, "index"}

Scores == 0..MaxScore

VARIABLES
  y_true,           \* labels handed to compute_auc
  y_pred,           \* scores handed to compute_auc
  auc,              \* what the last call of compute_auc did
  dataset,          \* the dataframe handed to the metrics functions
  subgroups,        \* the list of subgroups handed to compute_bias_metrics_for_model
  ret,              \* what the last call of a per-subgroup function did
  bias_metrics_df,  \* what the last call of compute_bias_metrics_for_model did
  test_df_float,    \* the test set as loaded: ratings in [0, 1], or missing
  test_df,          \* what convert_dataframe_to_bool made of it (boolean columns)
  identities_with_over_100_records   \* the identities the caller keeps

vars == <<y_true, y_pred, auc, dataset, subgroups, ret, bias_metrics_df,
          test_df_float, test_df, identities_with_over_100_records>>

\* The variables of the data preparation, which the metrics never touch.
prep == <<test_df_float, test_df, identities_with_over_100_records>>

\* ---------------------------------------------------------------- values
NaN == [nan |-> TRUE, num |-> 0, den |-> 1]

RECURSIVE Gcd(_, _)
Gcd(a, b) == IF b = 0 THEN a ELSE Gcd(b, a % b)

\* The float n/d, d > 0, as a fraction in lowest terms.
Float(n, d) == LET g == Gcd(n, d) IN [nan |-> FALSE, num |-> n \div g, den |-> d \div g]

\* a <= b on floats that are not NaN.
FloatLeq(a, b) == a.num * b.den <= b.num * a.den

Max(S) == CHOOSE x \in S : \A y \in S : y <= x

SeqsUpTo(S, n) == UNION {[1..k -> S] : k \in 0..n}

\* -------------------------------------------------- sklearn.metrics, numpy
\* Indices of the examples scored at or above threshold t with label l.
AtOrAbove(labels, scores, l, t) ==
  {i \in 1..Len(labels) : labels[i] = l /\ scores[i] >= t}

\* np.trapz over the ROC points of the thresholds T taken in decreasing
\* order, starting from the point (pf, pt); scaled by 2 * negatives * positives.
RECURSIVE Trapz(_, _, _, _, _)
Trapz(T, pf, pt, labels, scores) ==
  IF T = {} THEN 0
  ELSE LET t == Max(T)
           fps == Cardinality(AtOrAbove(labels, scores, FALSE, t))
           tps == Cardinality(AtOrAbove(labels, scores, TRUE, t))
       IN (fps - pf) * (tps + pt) + Trapz(T \ {t}, fps, tps, labels, scores)

\* np.trapz over the ROC points of the thresholds scores[i], scores[i+1], ...
\* taken as they come, without sorting them.
RECURSIVE TrapzInOrder(_, _, _, _, _)
TrapzInOrder(i, pf, pt, labels, scores) ==
  IF i > Len(scores) THEN 0
  ELSE LET fps == Cardinality(AtOrAbove(labels, scores, FALSE, scores[i]))
           tps == Cardinality(AtOrAbove(labels, scores, TRUE, scores[i]))
       IN (fps - pf) * (tps + pt) + TrapzInOrder(i + 1, fps, tps, labels, scores)

\* A variant that does not sort the thresholds.
roc_auc_score_unsorted(labels, scores) ==
  LET P == Cardinality({i \in 1..Len(labels) : labels[i]})
      N == Cardinality({i \in 1..Len(labels) : ~labels[i]})
  IN IF P = 0 \/ N = 0
     THEN [raised |-> "ValueError", value |-> NaN]
     ELSE [raised |-> "none",
           value |-> Float(TrapzInOrder(1, 0, 0, labels, scores), 2 * P * N)]

\* A variant that measures the area to the left of the curve.
roc_auc_score_flipped(labels, scores) ==
  LET P == Cardinality({i \in 1..Len(labels) : labels[i]})
      N == Cardinality({i \in 1..Len(labels) : ~labels[i]})
      T == {scores[i] : i \in 1..Len(scores)}
  IN IF P = 0 \/ N = 0
     THEN [raised |-> "ValueError", value |-> NaN]
     ELSE [raised |-> "none",
           value |-> Float(2 * P * N - Trapz(T, 0, 0, labels, scores), 2 * P * N)]

\* A variant that raises only when no label is true.
roc_auc_score_needs_positive_only(labels, scores) ==
  LET P == Cardinality({i \in 1..Len(labels) : labels[i]})
      N == Cardinality({i \in 1..Len(labels) : ~labels[i]})
      T == {scores[i] : i \in 1..Len(scores)}
  IN IF P = 0
     THEN [raised |-> "ValueError", value |-> NaN]
     ELSE IF N = 0 THEN [raised |-> "none", value |-> Float(1, 1)]
     ELSE [raised |-> "none",
           value |-> Float(Trapz(T, 0, 0, labels, scores), 2 * P * N)]

\* metrics.roc_auc_score: ValueError unless both classes are present (an
\* empty input has neither), else the area under the ROC curve.
roc_auc_score(labels, scores) ==
  LET P == Cardinality({i \in 1..Len(labels) : labels[i]})
      N == Cardinality({i \in 1..Len(labels) : ~labels[i]})
      T == {scores[i] : i \in 1..Len(scores)}
  IN IF P = 0 \/ N = 0
     THEN [raised |-> "ValueError", value |-> NaN]
     ELSE [raised |-> "none",
           value |-> Float(Trapz(T, 0, 0, labels, scores), 2 * P * N)]

\* A variant whose except clause returns 0.0.
compute_auc_zero(labels, scores) ==
  LET r == roc_auc_score(labels, scores)
  IN IF r.raised = "ValueError" THEN [raised |-> "none", value |-> Float(0, 1)] ELSE r

\* compute_auc: the score, or NaN when roc_auc_score raises ValueError.
compute_auc(labels, scores) ==
  LET r == roc_auc_score(labels, scores)
  IN IF r.raised = "ValueError" THEN [raised |-> "none", value |-> NaN] ELSE r

\* ------------------------------------------------------------------ pandas
\* df[mask]: the rows of df at which the boolean series mask is True, in
\* order, index labels kept.
RECURSIVE Mask(_, _)
Mask(df, mask) ==
  IF df = <<>> THEN <<>>
  ELSE LET n == Len(df)
           front == Mask(SubSeq(df, 1, n - 1), SubSeq(mask, 1, n - 1))
       IN IF mask[n] THEN Append(front, df[n]) ELSE front

\* mask1 & mask2 and ~mask on boolean series.
And(mask1, mask2) == [i \in 1..Len(mask1) |-> mask1[i] /\ mask2[i]]

Not(mask) == [i \in 1..Len(mask) |-> ~mask[i]]

\* df[col]: the column as a sequence.
Column(df, col) == [i \in 1..Len(df) |-> df[i][col]]

\* df1.append(df2): the rows of df1 followed by the rows of df2.
Append2(df1, df2) == df1 \o df2

Perms(n) == {p \in [1..n -> 1..n] : \A i, j \in 1..n : i # j => p[i] # p[j]}

\* A variant that sorts descending.
NArgSort_descending(keys) ==
  LET n == Len(keys)
      nan_idx == {i \in 1..n : keys[i].nan}
      k == n - Cardinality(nan_idx)
  IN {p \in Perms(n) :
        /\ \A i \in 1..k : ~keys[p[i]].nan
        /\ \A i, j \in 1..k : i < j => FloatLeq(keys[p[j]], keys[p[i]])
        /\ \A i, j \in (k + 1)..n : i < j => p[i] < p[j]}

\* A variant with na_position='first'.
NArgSort_na_first(keys) ==
  LET n == Len(keys)
      nan_idx == {i \in 1..n : keys[i].nan}
      k == Cardinality(nan_idx)
  IN {p \in Perms(n) :
        /\ \A i \in 1..k : keys[p[i]].nan
        /\ \A i, j \in 1..k : i < j => p[i] < p[j]
        /\ \A i, j \in (k + 1)..n : i < j => FloatLeq(keys[p[i]], keys[p[j]])}

\* pandas nargsort, ascending, na_position='last': the positions of the keys
\* that are not NaN, argsorted (an unstable sort: equal keys in any order),
\* followed by the positions of the NaN keys in their original order.
NArgSort(keys) ==
  LET n == Len(keys)
      nan_idx == {i \in 1..n : keys[i].nan}
      k == n - Cardinality(nan_idx)
  IN {p \in Perms(n) :
        /\ \A i \in 1..k : ~keys[p[i]].nan
        /\ \A i, j \in 1..k : i < j => FloatLeq(keys[p[i]], keys[p[j]])
        /\ \A i, j \in (k + 1)..n : i < j => p[i] < p[j]}

\* ------------------------------------------------------ data preparation
\* a >= 0.5 on a float; False when a is NaN.
AtLeastHalf(a) == ~a.nan /\ 2 * a.num >= a.den

\* A variant that compares with > 0.5.
convert_to_bool_strict(df, col_name) ==
  [i \in 1..Len(df) |->
     [df[i] EXCEPT ![col_name] = ~df[i][col_name].nan /\ 2 * df[i][col_name].num > df[i][col_name].den]]

\* convert_to_bool: the frame df after
\* df[col_name] = np.where(df[col_name] >= 0.5, True, False).
convert_to_bool(df, col_name) ==
  [i \in 1..Len(df) |-> [df[i] EXCEPT ![col_name] = AtLeastHalf(df[i][col_name])]]

\* The loop of convert_dataframe_to_bool from entry i of cols on.
RECURSIVE convert_columns(_, _, _)
convert_columns(bool_df, cols, i) ==
  IF i > Len(cols) THEN bool_df
  ELSE convert_columns(convert_to_bool(bool_df, cols[i]), cols, i + 1)

\* convert_dataframe_to_bool: the frame returned, and the caller's frame
\* after the call (the loop works on df.copy(), so df keeps its values).
convert_dataframe_to_bool(df) ==
  LET bool_df == convert_columns(df, <<TOXICITY_COLUMN>> \o identity_columns, 1)
  IN [df |-> df, returned |-> bool_df]

\* test_df.query(identity + '==True'): the rows whose flag is True, in order.
Query(df, identity) == SelectSeq(df, LAMBDA r : r[identity] = TRUE)

\* A variant that keeps an identity only above MinRecords.
identities_with_enough_records_strict(df, cols, i, kept) ==
  LET RECURSIVE Loop(_, _)
      Loop(j, acc) ==
        IF j > Len(cols) THEN acc
        ELSE Loop(j + 1, IF Len(Query(df, cols[j])) > MinRecords
                         THEN Append(acc, cols[j]) ELSE acc)
  IN Loop(i, kept)

\* The loop that fills identities_with_over_100_records, from entry i of
\* cols on, kept being the list so far.
RECURSIVE identities_with_enough_records(_, _, _, _)
identities_with_enough_records(df, cols, i, kept) ==
  IF i > Len(cols) THEN kept
  ELSE LET num_records == Len(Query(df, cols[i]))
       IN identities_with_enough_records(
            df, cols, i + 1,
            IF num_records >= MinRecords THEN Append(kept, cols[i]) ELSE kept)

\* ------------------------------------------------- the per-subgroup metrics
\* Each returns what compute_auc returned, with the frame it was handed.
Call(fn, subgroup, examples, label, model_name) ==
  LET r == compute_auc(Column(examples, label), Column(examples, model_name))
  IN [fn |-> fn, subgroup |-> subgroup, examples |-> examples,
      raised |-> r.raised, value |-> r.value]

\* A variant that forgets the filter.
compute_subgroup_auc_unfiltered(df, subgroup, label, model_name) ==
  Call("compute_subgroup_auc", subgroup, df, label, model_name)

compute_subgroup_auc(df, subgroup, label, model_name) ==
  LET subgroup_examples == Mask(df, Column(df, subgroup))
  IN Call("compute_subgroup_auc", subgroup, subgroup_examples, label, model_name)

\* A variant whose second mask forgets to negate the subgroup.
compute_background_positive_subgroup_negative_auc_unnegated(df, subgroup, label, model_name) ==
  LET subgroup_negative_examples == Mask(df, And(Column(df, subgroup), Not(Column(df, label))))
      non_subgroup_positive_examples == Mask(df, And(Column(df, subgroup), Column(df, label)))
      examples == Append2(subgroup_negative_examples, non_subgroup_positive_examples)
  IN Call("compute_background_positive_subgroup_negative_auc", subgroup, examples,
          label, model_name)

compute_background_positive_subgroup_negative_auc(df, subgroup, label, model_name) ==
  LET subgroup_negative_examples == Mask(df, And(Column(df, subgroup), Not(Column(df, label))))
      non_subgroup_positive_examples == Mask(df, And(Not(Column(df, subgroup)), Column(df, label)))
      examples == Append2(subgroup_negative_examples, non_subgroup_positive_examples)
  IN Call("compute_background_positive_subgroup_negative_auc", subgroup, examples,
          label, model_name)

\* A variant whose second mask takes every background example.
compute_background_negative_subgroup_positive_auc_all_background(df, subgroup, label, model_name) ==
  LET subgroup_positive_examples == Mask(df, And(Column(df, subgroup), Column(df, label)))
      non_subgroup_negative_examples == Mask(df, Not(Column(df, subgroup)))
      examples == Append2(subgroup_positive_examples, non_subgroup_negative_examples)
  IN Call("compute_background_negative_subgroup_positive_auc", subgroup, examples,
          label, model_name)

compute_background_negative_subgroup_positive_auc(df, subgroup, label, model_name) ==
  LET subgroup_positive_examples == Mask(df, And(Column(df, subgroup), Column(df, label)))
      non_subgroup_negative_examples == Mask(df, And(Not(Column(df, subgroup)), Not(Column(df, label))))
      examples == Append2(subgroup_positive_examples, non_subgroup_negative_examples)
  IN Call("compute_background_negative_subgroup_positive_auc", subgroup, examples,
          label, model_name)

\* ------------------------------------- the caller's dataframe after a call
\* A variant that filters the caller's frame in place.
after_compute_subgroup_auc_inplace(df, subgroup, label, model_name) ==
  Mask(df, Column(df, subgroup))

\* df after compute_subgroup_auc(df, ...): df[mask] builds a new frame and
\* the columns are only read.
after_compute_subgroup_auc(df, subgroup, label, model_name) == df

\* df after compute_background_positive_subgroup_negative_auc(df, ...): the
\* two df[mask] build new frames and append returns a third.
after_compute_background_positive_subgroup_negative_auc(df, subgroup, label, model_name) == df

\* df after compute_background_negative_subgroup_positive_auc(df, ...): the same.
after_compute_background_negative_subgroup_positive_auc(df, subgroup, label, model_name) == df

\* The dataset after the loop has run from entry i of the list on: each
\* pass reads len(dataset[dataset[subgroup]]) and hands the dataset to the
\* three functions in turn.
RECURSIVE after_loop(_, _, _, _, _)
after_loop(df, subgroup_list, i, model, label_col) ==
  IF i > Len(subgroup_list) THEN df
  ELSE LET g == subgroup_list[i]
           df1 == after_compute_subgroup_auc(df, g, label_col, model)
           df2 == after_compute_background_positive_subgroup_negative_auc(df1, g, label_col, model)
           df3 == after_compute_background_negative_subgroup_positive_auc(df2, g, label_col, model)
       IN after_loop(df3, subgroup_list, i + 1, model, label_col)

\* The caller's dataset and list after compute_bias_metrics_for_model: the
\* list is only iterated over, records is a local list, and
\* pd.DataFrame(records).sort_values(...) returns a new frame.
after_compute_bias_metrics_for_model(df, subgroup_list, model, label_col) ==
  [dataset |-> after_loop(df, subgroup_list, 1, model, label_col),
   subgroups |-> subgroup_list]

\* ------------------------------------------ compute_bias_metrics_for_model
\* A variant whose subgroup_size is the size of the dataset.
MetricsRecord_size_of_dataset(df, subgroup, model, label_col) ==
  LET a == compute_subgroup_auc(df, subgroup, label_col, model)
      b == compute_background_positive_subgroup_negative_auc(df, subgroup, label_col, model)
      c == compute_background_negative_subgroup_positive_auc(df, subgroup, label_col, model)
  IN [raised |-> IF a.raised # "none" THEN a.raised
                 ELSE IF b.raised # "none" THEN b.raised ELSE c.raised,
      subgroup |-> subgroup,
      subgroup_size |-> Len(df),
      subgroup_auc |-> a.value,
      background_positive_subgroup_negative_auc |-> b.value,
      background_negative_subgroup_positive_auc |-> c.value]

\* The loop body: the record of one subgroup, with the exception (if any)
\* that one of the three calls let through.
MetricsRecord(df, subgroup, model, label_col) ==
  LET a == compute_subgroup_auc(df, subgroup, label_col, model)
      b == compute_background_positive_subgroup_negative_auc(df, subgroup, label_col, model)
      c == compute_background_negative_subgroup_positive_auc(df, subgroup, label_col, model)
  IN [raised |-> IF a.raised # "none" THEN a.raised
                 ELSE IF b.raised # "none" THEN b.raised ELSE c.raised,
      subgroup |-> subgroup,
      subgroup_size |-> Len(Mask(df, Column(df, subgroup))),
      subgroup_auc |-> a.value,
      background_positive_subgroup_negative_auc |-> b.value,
      background_negative_subgroup_positive_auc |-> c.value]

\* A variant that skips the subgroups no row belongs to.
MetricsRecords_skip_empty(df, subgroup_list, model, label_col) ==
  LET kept == SelectSeq(subgroup_list, LAMBDA g : \E i \in 1..Len(df) : df[i][g])
  IN [i \in 1..Len(kept) |-> MetricsRecord(df, kept[i], model, label_col)]

\* A variant whose subgroup_size is always that of the first subgroup of the list.
MetricsRecords_stale_size(df, subgroup_list, model, label_col) ==
  [i \in 1..Len(subgroup_list) |->
     [MetricsRecord(df, subgroup_list[i], model, label_col) EXCEPT
        !.subgroup_size = Len(Mask(df, Column(df, subgroup_list[1])))]]

\* The list `records` after the loop.
MetricsRecords(df, subgroup_list, model, label_col) ==
  [i \in 1..Len(subgroup_list) |-> MetricsRecord(df, subgroup_list[i], model, label_col)]

\* pd.DataFrame(records): one row per record, in order, under a RangeIndex.
DataFrame(records) ==
  [i \in 1..Len(records) |->
     [index |-> i - 1,
      subgroup |-> records[i].subgroup,
      subgroup_size |-> records[i].subgroup_size,
      subgroup_auc |-> records[i].subgroup_auc,
      background_positive_subgroup_negative_auc |->
        records[i].background_positive_subgroup_negative_auc,
      background_negative_subgroup_positive_auc |->
        records[i].background_negative_subgroup_positive_auc]]

\* pd.DataFrame(records).sort_values('subgroup_auc', ascending=True): the
\* frames the sort can return. A frame made of no records has no column
\* 'subgroup_auc', and sorting by it raises KeyError.
sort_values(records) ==
  IF records = <<>>
  THEN {[raised |-> "KeyError", rows |-> <<>>]}
  ELSE LET df == DataFrame(records)
       IN {[raised |-> "none", rows |-> [i \in 1..Len(df) |-> df[p[i]]]] :
             p \in NArgSort(Column(df, SUBGROUP_AUC))}

\* The outcomes of compute_bias_metrics_for_model: the exception that the
\* loop let through, or what the sort returns.
compute_bias_metrics_for_model(df, subgroup_list, model, label_col) ==
  LET records == MetricsRecords(df, subgroup_list, model, label_col)
      failed == {i \in 1..Len(records) : records[i].raised # "none"}
  IN IF failed # {}
     THEN {[raised |-> records[CHOOSE i \in failed : \A j \in failed : i <= j].raised,
            rows |-> <<>>]}
     ELSE sort_values(records)

\* ------------------------------------------------------------ state machine
NotCalled == [raised |-> "not called", rows |-> <<>>]

NoCall == [fn |-> "none", subgroup |-> "none", examples |-> <<>>,
           raised |-> "none", value |-> NaN]

NoAuc == [raised |-> "not called", value |-> NaN]

\* The row at index label i with label l, score s and subgroup flags f.
Row(i, l, s, f) ==
  [c \in Columns |->
     IF c \in Subgroups THEN f[c]
     ELSE IF c = TOXICITY_COLUMN THEN l
     ELSE IF c = MODEL_NAME THEN s
     ELSE i]

\* dataset is a scored test set of at most MaxRecords rows: boolean labels
\* and subgroup flags, a score per row, index labels 1..n.
IsDataset(d) ==
  \E n \in 0..MaxRecords :
    \E l \in [1..n -> BOOLEAN], s \in [1..n -> Scores],
       f \in [1..n -> [Subgroups -> BOOLEAN]] :
      d = [i \in 1..n |-> Row(i, l[i], s[i], f[i])]

NotFiltered == [raised |-> "not called", list |-> <<>>]

\* The data preparation has not run (the metrics do not read its variables).
NoPrep ==
  /\ test_df_float = <<>>
  /\ test_df = [raised |-> "not called", df |-> <<>>]
  /\ identities_with_over_100_records = NotFiltered

\* --- compute_auc on its own
InitAuc ==
  /\ \E n \in 0..MaxLen : y_true \in [1..n -> BOOLEAN] /\ y_pred \in [1..n -> Scores]
  /\ auc = NoAuc
  /\ dataset = <<>>
  /\ subgroups = <<>>
  /\ ret = NoCall
  /\ bias_metrics_df = NotCalled
  /\ NoPrep

ComputeAuc ==
  /\ auc' = compute_auc(y_true, y_pred)
  /\ UNCHANGED <<y_true, y_pred, dataset, subgroups, ret, bias_metrics_df, prep>>

NextAuc == ComputeAuc

SpecAuc == InitAuc /\ [][NextAuc]_vars

\* --- the three per-subgroup functions on a dataset
InitSubgroup ==
  /\ y_true = <<>>
  /\ y_pred = <<>>
  /\ auc = NoAuc
  /\ IsDataset(dataset)
  /\ subgroups = <<>>
  /\ ret = NoCall
  /\ bias_metrics_df = NotCalled
  /\ NoPrep

ComputeSubgroupAuc(s) ==
  /\ ret' = compute_subgroup_auc(dataset, s, TOXICITY_COLUMN, MODEL_NAME)
  /\ dataset' = after_compute_subgroup_auc(dataset, s, TOXICITY_COLUMN, MODEL_NAME)
  /\ UNCHANGED <<y_true, y_pred, auc, subgroups, bias_metrics_df, prep>>

ComputeBackgroundPositiveSubgroupNegativeAuc(s) ==
  /\ ret' = compute_background_positive_subgroup_negative_auc(
              dataset, s, TOXICITY_COLUMN, MODEL_NAME)
  /\ dataset' = after_compute_background_positive_subgroup_negative_auc(
                  dataset, s, TOXICITY_COLUMN, MODEL_NAME)
  /\ UNCHANGED <<y_true, y_pred, auc, subgroups, bias_metrics_df, prep>>

ComputeBackgroundNegativeSubgroupPositiveAuc(s) ==
  /\ ret' = compute_background_negative_subgroup_positive_auc(
              dataset, s, TOXICITY_COLUMN, MODEL_NAME)
  /\ dataset' = after_compute_background_negative_subgroup_positive_auc(
                  dataset, s, TOXICITY_COLUMN, MODEL_NAME)
  /\ UNCHANGED <<y_true, y_pred, auc, subgroups, bias_metrics_df, prep>>

NextSubgroup ==
  \E s \in Subgroups :
    \/ ComputeSubgroupAuc(s)
    \/ ComputeBackgroundPositiveSubgroupNegativeAuc(s)
    \/ ComputeBackgroundNegativeSubgroupPositiveAuc(s)

SpecSubgroup == InitSubgroup /\ [][NextSubgroup]_vars

\* --- compute_bias_metrics_for_model on a dataset and a list of subgroups
Init ==
  /\ y_true = <<>>
  /\ y_pred = <<>>
  /\ auc = NoAuc
  /\ IsDataset(dataset)
  /\ subgroups \in SeqsUpTo(Subgroups, MaxSubgroups)
  /\ ret = NoCall
  /\ bias_metrics_df = NotCalled
  /\ NoPrep

ComputeBiasMetricsForModel ==
  /\ bias_metrics_df' \in
       compute_bias_metrics_for_model(dataset, subgroups, MODEL_NAME, TOXICITY_COLUMN)
  /\ LET after == after_compute_bias_metrics_for_model(
                    dataset, subgroups, MODEL_NAME, TOXICITY_COLUMN)
     IN dataset' = after.dataset /\ subgroups' = after.subgroups
  /\ UNCHANGED <<y_true, y_pred, auc, ret, prep>>

Next == ComputeBiasMetricsForModel

Spec == Init /\ [][Next]_vars

\* --- compute_bias_metrics_for_model on the four-record scenario of the spec
\* The records (label, score, member of subgroup A), scores in tenths.
ScenarioRecords ==
  <<[label |-> TRUE, score |-> 9, A |-> TRUE],
    [label |-> FALSE, score |-> 1, A |-> TRUE],
    [label |-> TRUE, score |-> 8, A |-> FALSE],
    [label |-> FALSE, score |-> 2, A |-> FALSE]>>

\* The dataset holds the four records in some order, subgroup A being one
\* of the identity columns and the other columns' flags being anything; the
\* list of subgroups is [A].
InitScenario ==
  /\ y_true = <<>>
  /\ y_pred = <<>>
  /\ auc = NoAuc
  /\ \E A \in Subgroups, p \in Perms(Len(ScenarioRecords)),
        other \in [1..Len(ScenarioRecords) -> BOOLEAN] :
       /\ dataset = [i \in 1..Len(ScenarioRecords) |->
                       Row(i, ScenarioRecords[p[i]].label, ScenarioRecords[p[i]].score,
                           [g \in Subgroups |->
                              IF g = A THEN ScenarioRecords[p[i]].A ELSE other[i]])]
       /\ subgroups = <<A>>
  /\ ret = NoCall
  /\ bias_metrics_df = NotCalled
  /\ NoPrep

SpecScenario == InitScenario /\ [][Next]_vars

\* --- convert_dataframe_to_bool on the test set as loaded
Ratings == {Float(k, 2 * MaxRating) : k \in 0..(2 * MaxRating)}

FloatColumns == Subgroups \cup {TOXICITY_COLUMN, "comment_text", "index"}

\* The row at index label i with the rating t of toxicity and the ratings f
\* of the identities.
FloatRow(i, t, f) ==
  [c \in FloatColumns |->
     IF c \in Subgroups THEN f[c]
     ELSE IF c = TOXICITY_COLUMN THEN t
     ELSE IF c = "comment_text" THEN "text"
     ELSE i]

\* The frame holds at most MaxFloatRows rows; a rating is a fraction of the
\* raters or is missing (NaN).
InitConvert ==
  /\ y_true = <<>>
  /\ y_pred = <<>>
  /\ auc = NoAuc
  /\ dataset = <<>>
  /\ subgroups = <<>>
  /\ ret = NoCall
  /\ bias_metrics_df = NotCalled
  /\ \E n \in 0..MaxFloatRows :
       \E t \in [1..n -> Ratings \cup {NaN}],
          f \in [1..n -> [Subgroups -> Ratings \cup {NaN}]] :
         test_df_float = [i \in 1..n |-> FloatRow(i, t[i], f[i])]
  /\ test_df = [raised |-> "not called", df |-> <<>>]
  /\ identities_with_over_100_records = NotFiltered

\* test_df = convert_dataframe_to_bool(test_df_float)
ConvertDataframeToBool ==
  /\ LET r == convert_dataframe_to_bool(test_df_float)
     IN /\ test_df' = [raised |-> "none", df |-> r.returned]
        /\ test_df_float' = r.df
  /\ UNCHANGED <<y_true, y_pred, auc, dataset, subgroups, ret, bias_metrics_df,
                 identities_with_over_100_records>>

NextConvert == ConvertDataframeToBool

SpecConvert == InitConvert /\ [][NextConvert]_vars

\* --- the caller's filter of the identities on the test set
BlockLens == (0..MaxSlack) \cup ((MinRecords - 1 - MaxSlack)..(MinRecords + MaxSlack))

\* The flags of row i of a frame made of a rows of the first identity only,
\* then b rows of both identities, then c rows of the second only, then
\* rows of neither.
BlockFlags(i, a, b, c) ==
  [g \in Subgroups |->
     IF g = identity_columns[1] THEN i <= a + b
     ELSE i > a /\ i <= a + b + c]

\* The test set is made of four runs of rows, each run of a length in 0..MaxSlack
\* or within MaxSlack of the threshold.
InitFilter ==
  /\ y_true = <<>>
  /\ y_pred = <<>>
  /\ auc = NoAuc
  /\ dataset = <<>>
  /\ subgroups = <<>>
  /\ ret = NoCall
  /\ bias_metrics_df = NotCalled
  /\ test_df_float = <<>>
  /\ \E a \in BlockLens, b \in BlockLens, c \in BlockLens, d \in 0..MaxSlack :
       test_df = [raised |-> "none",
                  df |-> [i \in 1..(a + b + c + d) |->
                            Row(i, i % 2 = 0, 0, BlockFlags(i, a, b, c))]]
  /\ identities_with_over_100_records = NotFiltered

\* The cell that fills identities_with_over_100_records.
FilterIdentities ==
  /\ identities_with_over_100_records' =
       [raised |-> "none",
        list |-> identities_with_enough_records(test_df.df, identity_columns, 1, <<>>)]
  /\ UNCHANGED <<y_true, y_pred, auc, dataset, subgroups, ret, bias_metrics_df,
                 test_df_float, test_df>>

NextFilter == FilterIdentities

SpecFilter == InitFilter /\ [][NextFilter]_vars

\* ------------------------------------------------------------------ claims
Returned == bias_metrics_df.raised = "none"

Called == bias_metrics_df.raised # "not called"

rows == bias_metrics_df.rows

\* How many entries of the sequence q have the value v in field (column) c.
Count(q, c, v) == Cardinality({k \in 1..Len(q) : q[k][c] = v})

\* The AUC of the rows of dataset at the positions I, by the definition of
\* the glossary: the probability that a positive row of I scores higher than
\* a negative row of I, a tie counting for one half.
PairAuc(I) ==
  LET P == {i \in I : dataset[i][TOXICITY_COLUMN]}
      N == {i \in I : ~dataset[i][TOXICITY_COLUMN]}
      wins == {pn \in P \X N : dataset[pn[1]][MODEL_NAME] > dataset[pn[2]][MODEL_NAME]}
      ties == {pn \in P \X N : dataset[pn[1]][MODEL_NAME] = dataset[pn[2]][MODEL_NAME]}
  IN IF P = {} \/ N = {} THEN NaN
     ELSE Float(2 * Cardinality(wins) + Cardinality(ties), 2 * Cardinality(P) * Cardinality(N))

\* The frame `examples` holds exactly the rows of dataset at the positions
\* I, each once, each with its own values.
HoldsExactly(examples, I) ==
  /\ \A i \in 1..Len(dataset) :
       Count(examples, "index", i) = IF i \in I THEN 1 ELSE 0
  /\ \A k \in 1..Len(examples) :
       /\ examples[k]["index"] \in 1..Len(dataset)
       /\ examples[k] = dataset[examples[k]["index"]]

\* dataset without its row at position j.
Without(j) == SubSeq(dataset, 1, j - 1) \o SubSeq(dataset, j + 1, Len(dataset))

\* C1 (as stated): the table returned by compute_bias_metrics_for_model holds
\* every subgroup id of the input list exactly once, and no other id.
C1_ExactlyOnePerId ==
  Returned =>
    /\ \A i \in 1..Len(subgroups) : Count(rows, "subgroup", subgroups[i]) = 1
    /\ \A k \in 1..Len(rows) : \E i \in 1..Len(subgroups) : rows[k].subgroup = subgroups[i]

\* C1 (amended): the table returned by compute_bias_metrics_for_model holds
\* one row per entry of the input list: row k of the unsorted frame is the
\* row of entry k, so every id appears as often in the output as in the
\* input list (once when the list repeats no id), and no other id appears.
C1_OneRowPerEntry ==
  Returned =>
    /\ Len(rows) = Len(subgroups)
    /\ \A i \in 1..Len(subgroups) : Count(rows, "index", i - 1) = 1
    /\ \A k \in 1..Len(rows) :
         /\ rows[k].index \in 0..(Len(subgroups) - 1)
         /\ rows[k].subgroup = subgroups[rows[k].index + 1]
    /\ \A g \in Subgroups :
         Count(rows, "subgroup", g) = Cardinality({i \in 1..Len(subgroups) : subgroups[i] = g})

\* C1 witness: a table returned for a list of two different ids, one of them
\* a subgroup without rows, in an order other than that of the list.
C1_Witness ==
  /\ Returned
  /\ Len(subgroups) = 2
  /\ subgroups[1] # subgroups[2]
  /\ rows[1].subgroup = subgroups[2]
  /\ \E k \in 1..2 : rows[k].subgroup_size = 0

\* C2: compute_auc returns (never raises); the result is NaN when the labels
\* are all true, all false or empty, and a number in [0, 1] when both a true
\* and a false label are present.
C2_UndefinedOrInUnitInterval ==
  auc.raised # "not called" =>
    LET both == (\E i \in 1..Len(y_true) : y_true[i]) /\ (\E i \in 1..Len(y_true) : ~y_true[i])
    IN /\ auc.raised = "none"
       /\ ~both => auc.value = NaN
       /\ both => /\ ~auc.value.nan
                  /\ 0 <= auc.value.num
                  /\ auc.value.num <= auc.value.den

\* C2 witness: compute_auc has returned a number strictly between 0 and 1.
C2_Witness ==
  /\ auc.raised = "none"
  /\ ~auc.value.nan
  /\ 0 < auc.value.num
  /\ auc.value.num < auc.value.den

\* C2 second case reached as well: NaN returned for a non-empty one-class input.
C2_WitnessUndefined ==
  /\ auc.raised = "none"
  /\ auc.value = NaN
  /\ Len(y_true) >= 2

\* C3 (as stated): every call of compute_bias_metrics_for_model on a list of
\* columns of the dataset returns a table, with a row for every subgroup of
\* the list.
C3_AlwaysReturnsTable ==
  Called =>
    /\ Returned
    /\ \A i \in 1..Len(subgroups) : \E k \in 1..Len(rows) : rows[k].subgroup = subgroups[i]

\* C4: the subgroup_size of a row is the number of rows of the dataset whose
\* flag for the row's subgroup is true.
C4_SubgroupSize ==
  Returned =>
    \A k \in 1..Len(rows) :
      rows[k].subgroup_size =
        Cardinality({i \in 1..Len(dataset) : dataset[i][rows[k].subgroup]})

\* C4 witness: a subgroup of size 2 whose two rows differ in nothing but the
\* index label, in a dataset of three rows.
C4_Witness ==
  /\ Returned
  /\ Len(dataset) = 3
  /\ \E k \in 1..Len(rows) :
       /\ rows[k].subgroup_size = 2
       /\ \E i, j \in 1..3 :
            /\ i # j
            /\ dataset[i][rows[k].subgroup]
            /\ dataset[j][rows[k].subgroup]
            /\ \A c \in Columns \ {"index"} : dataset[i][c] = dataset[j][c]

\* C5: compute_background_positive_subgroup_negative_auc hands compute_auc
\* exactly the rows that are in the subgroup with label false or outside it
\* with label true, each once with its own values, and returns their AUC.
C5_ComparisonSet ==
  ret.fn = "compute_background_positive_subgroup_negative_auc" =>
    LET g == ret.subgroup
        I == {i \in 1..Len(dataset) :
                \/ dataset[i][g] /\ ~dataset[i][TOXICITY_COLUMN]
                \/ ~dataset[i][g] /\ dataset[i][TOXICITY_COLUMN]}
    IN /\ HoldsExactly(ret.examples, I)
       /\ ret.raised = "none"
       /\ ret.value = PairAuc(I)

\* C5 witness: the comparison set holds a negative subgroup row and a positive
\* background row and leaves a row of the dataset out; the AUC is a number.
C5_Witness ==
  /\ ret.fn = "compute_background_positive_subgroup_negative_auc"
  /\ Len(ret.examples) = 2
  /\ Len(dataset) = 3
  /\ ~ret.value.nan

\* C6: compute_background_negative_subgroup_positive_auc hands compute_auc
\* exactly the rows that are in the subgroup with label true or outside it
\* with label false, each once with its own values, and returns their AUC.
C6_ComparisonSet ==
  ret.fn = "compute_background_negative_subgroup_positive_auc" =>
    LET g == ret.subgroup
        I == {i \in 1..Len(dataset) :
                \/ dataset[i][g] /\ dataset[i][TOXICITY_COLUMN]
                \/ ~dataset[i][g] /\ ~dataset[i][TOXICITY_COLUMN]}
    IN /\ HoldsExactly(ret.examples, I)
       /\ ret.raised = "none"
       /\ ret.value = PairAuc(I)

\* C6 witness: the comparison set holds a positive subgroup row and a negative
\* background row and leaves a row of the dataset out; the AUC is a number.
C6_Witness ==
  /\ ret.fn = "compute_background_negative_subgroup_positive_auc"
  /\ Len(ret.examples) = 2
  /\ Len(dataset) = 3
  /\ ~ret.value.nan

\* C7: compute_subgroup_auc returns the AUC of exactly the rows whose flag
\* for the subgroup is true, and the same result on the dataset with any row
\* outside the subgroup taken away.
C7_SubgroupOnly ==
  ret.fn = "compute_subgroup_auc" =>
    LET g == ret.subgroup
        I == {i \in 1..Len(dataset) : dataset[i][g]}
    IN /\ HoldsExactly(ret.examples, I)
       /\ ret.raised = "none"
       /\ ret.value = PairAuc(I)
       /\ \A j \in (1..Len(dataset)) \ I :
            compute_subgroup_auc(Without(j), g, TOXICITY_COLUMN, MODEL_NAME).value = ret.value

\* C7 witness: a subgroup of two rows with a numeric AUC, and a background
\* row whose score and label would change the AUC of the whole dataset.
C7_Witness ==
  /\ ret.fn = "compute_subgroup_auc"
  /\ Len(ret.examples) = 2
  /\ Len(dataset) = 3
  /\ ~ret.value.nan
  /\ ret.value # PairAuc(1..3)

\* C8: in the returned table no row with a defined subgroup_auc comes before
\* a row with a smaller defined subgroup_auc.
C8_AscendingAuc ==
  Returned =>
    \A i, j \in 1..Len(rows) :
      (i < j /\ ~rows[i].subgroup_auc.nan /\ ~rows[j].subgroup_auc.nan)
        => FloatLeq(rows[i].subgroup_auc, rows[j].subgroup_auc)

\* C8 witness: two subgroups with different defined AUCs, handed over in
\* descending order and returned in ascending order.
C8_Witness ==
  /\ Returned
  /\ Len(rows) = 2
  /\ ~rows[1].subgroup_auc.nan
  /\ ~rows[2].subgroup_auc.nan
  /\ rows[1].subgroup_auc # rows[2].subgroup_auc
  /\ rows[1].index = 1

C10_SeparatorValues ==
  auc.raised # "not called" =>
    LET P == {i \in 1..Len(y_true) : y_true[i]}
        N == {i \in 1..Len(y_true) : ~y_true[i]}
    IN (P # {} /\ N # {}) =>
         /\ (\A p \in P, n \in N : y_pred[p] > y_pred[n]) => auc.value = Float(1, 1)
         /\ (\A p \in P, n \in N : y_pred[p] < y_pred[n]) => auc.value = Float(0, 1)
         /\ (\A i, j \in 1..Len(y_pred) : y_pred[i] = y_pred[j]) => auc.value = Float(1, 2)

\* C10 witness: a perfect separator over two positives and two negatives
\* scored at three levels has been given the AUC 1.
C10_Witness ==
  /\ auc.raised = "none"
  /\ auc.value = Float(1, 1)
  /\ Cardinality({i \in 1..Len(y_true) : y_true[i]}) = 2
  /\ Cardinality({i \in 1..Len(y_true) : ~y_true[i]}) = 2
  /\ Cardinality({y_pred[i] : i \in 1..Len(y_pred)}) = 3

\* C11: a call of compute_bias_metrics_for_model (which calls the three AUC
\* functions on the dataset, once per entry of the list) leaves the dataset
\* and the subgroup list as they were: same rows, same order, same values.
C11_InputsUnchanged ==
  [][dataset' = dataset /\ subgroups' = subgroups]_vars

\* C11 witness: the call has returned for a dataset of three rows, not all
\* in the subgroups, and a list of two subgroups.
C11_Witness ==
  /\ Returned
  /\ Len(dataset) = 3
  /\ Len(subgroups) = 2
  /\ \E i \in 1..3 : ~dataset[i][subgroups[1]]
  /\ \E i \in 1..3 : dataset[i][subgroups[1]]

\* A row of the result table without its index label.
Result(row) ==
  [subgroup |-> row.subgroup,
   subgroup_size |-> row.subgroup_size,
   subgroup_auc |-> row.subgroup_auc,
   background_positive_subgroup_negative_auc |-> row.background_positive_subgroup_negative_auc,
   background_negative_subgroup_positive_auc |-> row.background_negative_subgroup_positive_auc]

ResultSet(table) == {Result(table[k]) : k \in 1..Len(table)}

\* C12: on the same dataset, every reordering of the subgroup list gives the
\* same set of results (subgroup, subgroup_size, the three AUCs), and the
\* result of a subgroup is the one obtained from the list that holds only it.
C12_OrderIndependent ==
  Returned =>
    /\ \A p \in Perms(Len(subgroups)) :
         \A o \in compute_bias_metrics_for_model(
                    dataset, [i \in 1..Len(subgroups) |-> subgroups[p[i]]],
                    MODEL_NAME, TOXICITY_COLUMN) :
           o.raised = "none" /\ ResultSet(o.rows) = ResultSet(rows)
    /\ \A k \in 1..Len(rows) :
         \A o \in compute_bias_metrics_for_model(
                    dataset, <<rows[k].subgroup>>, MODEL_NAME, TOXICITY_COLUMN) :
           o.raised = "none" /\ Len(o.rows) = 1 /\ Result(o.rows[1]) = Result(rows[k])

\* C12 witness: a table for two different subgroups whose sizes and
\* subgroup AUCs differ, the second subgroup of the list having a defined AUC.
C12_Witness ==
  /\ Returned
  /\ Len(subgroups) = 2
  /\ subgroups[1] # subgroups[2]
  /\ rows[1].subgroup_size # rows[2].subgroup_size
  /\ rows[1].subgroup_auc # rows[2].subgroup_auc
  /\ ~rows[1].subgroup_auc.nan
  /\ rows[1].index = 1

\* C13: compute_auc returns the same result (a number or NaN) for every
\* reordering of the examples, labels and scores reordered alike.
C13_PermutationInvariant ==
  auc.raised # "not called" =>
    \A p \in Perms(Len(y_true)) :
      compute_auc([i \in 1..Len(y_true) |-> y_true[p[i]]],
                  [i \in 1..Len(y_pred) |-> y_pred[p[i]]]) = auc

\* C13 witness: an AUC strictly between 0 and 1 has been returned for four
\* examples at three score levels whose scores are not in sorted order.
C13_Witness ==
  /\ auc.raised = "none"
  /\ ~auc.value.nan
  /\ 0 < auc.value.num
  /\ auc.value.num < auc.value.den
  /\ Len(y_pred) = 4
  /\ Cardinality({y_pred[i] : i \in 1..4}) = 3
  /\ y_pred[1] > y_pred[2]
  /\ y_pred[2] < y_pred[3]

\* C14: on the four records (true, 0.9, A), (false, 0.1, A), (true, 0.8,
\* not A), (false, 0.2, not A) and the list [A], the table holds one row,
\* for A, with subgroup_size 2 and the three AUCs equal to 1.
C14_Scenario ==
  Returned =>
    /\ Len(rows) = 1
    /\ rows[1].subgroup = subgroups[1]
    /\ rows[1].subgroup_size = 2
    /\ rows[1].subgroup_auc = Float(1, 1)
    /\ rows[1].background_positive_subgroup_negative_auc = Float(1, 1)
    /\ rows[1].background_negative_subgroup_positive_auc = Float(1, 1)

\* C14 witness: the table has been returned for the four records in the
\* order of the scenario.
C14_Witness ==
  /\ Returned
  /\ Len(dataset) = 4
  /\ \A i \in 1..4 :
       /\ dataset[i][TOXICITY_COLUMN] = ScenarioRecords[i].label
       /\ dataset[i][MODEL_NAME] = ScenarioRecords[i].score
       /\ dataset[i][subgroups[1]] = ScenarioRecords[i].A

\* C15: the frame returned by convert_dataframe_to_bool has the rows of its
\* input; in the toxicity column and in every identity column a value is
\* True when the input value is at least 0.5 (0.5 included) and False when
\* it is below 0.5 or missing; the other columns are copied; and the call
\* leaves its input frame as it was.
C15_ConvertToBool ==
  /\ [](test_df.raised = "none" =>
          /\ Len(test_df.df) = Len(test_df_float)
          /\ \A i \in 1..Len(test_df_float) :
               /\ \A c \in {TOXICITY_COLUMN} \cup Subgroups :
                    LET v == test_df_float[i][c]
                    IN test_df.df[i][c] =
                         IF v.nan THEN FALSE
                         ELSE IF 2 * v.num < v.den THEN FALSE ELSE TRUE
               /\ \A c \in FloatColumns \ ({TOXICITY_COLUMN} \cup Subgroups) :
                    test_df.df[i][c] = test_df_float[i][c])
  /\ [][test_df_float' = test_df_float]_vars

\* C15 witness: a frame with a toxicity of exactly 0.5 (made True), a missing
\* identity (made False) and an identity below 0.5 has been converted.
C15_Witness ==
  /\ test_df.raised = "none"
  /\ \E i \in 1..Len(test_df_float) :
       /\ test_df_float[i][TOXICITY_COLUMN] = Float(1, 2)
       /\ test_df.df[i][TOXICITY_COLUMN]
       /\ \E g \in Subgroups : test_df_float[i][g].nan /\ ~test_df.df[i][g]
       /\ \E g \in Subgroups : test_df_float[i][g] = Float(0, 1) /\ ~test_df.df[i][g]

\* How many rows of the test set have the flag g.
NumTrue(g) == Cardinality({i \in 1..Len(test_df.df) : test_df.df[i][g]})

\* Where the identity g stands in identity_columns.
Position(g) == CHOOSE i \in 1..Len(identity_columns) : identity_columns[i] = g

\* C16: an identity column is in identities_with_over_100_records exactly
\* when at least 100 rows of the test set have its flag (100 is enough, 99 is
\* not); the list holds no identity twice and keeps the order of
\* identity_columns.
C16_PreFilter ==
  identities_with_over_100_records.raised = "none" =>
    LET kept == identities_with_over_100_records.list
    IN /\ \A g \in Subgroups :
            (\E k \in 1..Len(kept) : kept[k] = g) <=> NumTrue(g) >= 100
       /\ \A g \in Subgroups : NumTrue(g) = 99 => \A k \in 1..Len(kept) : kept[k] # g
       /\ \A j, k \in 1..Len(kept) : j < k => Position(kept[j]) < Position(kept[k])

\* C16 witness: the filter has kept an identity with exactly 100 rows and
\* dropped one with exactly 99.
C16_Witness ==
  /\ identities_with_over_100_records.raised = "none"
  /\ \E g, h \in Subgroups :
       /\ NumTrue(g) = 100
       /\ NumTrue(h) = 99
       /\ identities_with_over_100_records.list = <<g>>

\* Both identities kept, in the order of identity_columns.
C16_WitnessOrder ==
  /\ identities_with_over_100_records.raised = "none"
  /\ identities_with_over_100_records.list = identity_columns
  /\ NumTrue(identity_columns[1]) = 100

\* The rows of dataset in (or, with member FALSE, outside) the subgroup g
\* whose label is l.
Having(g, member, l) ==
  {i \in 1..Len(dataset) : dataset[i][g] = member /\ dataset[i][TOXICITY_COLUMN] = l}

\* C17: each metric is NaN exactly when its comparison set has no true label
\* or no false label, and a number otherwise: subgroup_auc when the subgroup
\* has no positive or no negative row; the background-positive
\* subgroup-negative AUC when the subgroup has no negative or the background
\* no positive row; the background-negative subgroup-positive AUC when the
\* subgroup has no positive or the background no negative row.
C17_UndefinedExactlyWhen ==
  LET g == ret.subgroup
  IN /\ ret.fn = "compute_subgroup_auc" =>
          (ret.value.nan <=> (Having(g, TRUE, TRUE) = {} \/ Having(g, TRUE, FALSE) = {}))
     /\ ret.fn = "compute_background_positive_subgroup_negative_auc" =>
          (ret.value.nan <=> (Having(g, TRUE, FALSE) = {} \/ Having(g, FALSE, TRUE) = {}))
     /\ ret.fn = "compute_background_negative_subgroup_positive_auc" =>
          (ret.value.nan <=> (Having(g, TRUE, TRUE) = {} \/ Having(g, FALSE, FALSE) = {}))
     /\ ret.fn # "none" => ret.raised = "none"

\* C17 witness: subgroup_auc is NaN for a subgroup of three rows all labeled
\* true.
C17_Witness ==
  /\ ret.fn = "compute_subgroup_auc"
  /\ ret.value.nan
  /\ Cardinality(Having(ret.subgroup, TRUE, TRUE)) = 3

\* A cross metric is a number although the subgroup AUC of the same dataset
\* is undefined.
C17_WitnessDefined ==
  /\ ret.fn = "compute_background_positive_subgroup_negative_auc"
  /\ ~ret.value.nan
  /\ Having(ret.subgroup, TRUE, TRUE) = {}

\* The frames of the two cross metrics for the subgroup of the last call.
BpsnExamples ==
  compute_background_positive_subgroup_negative_auc(
    dataset, ret.subgroup, TOXICITY_COLUMN, MODEL_NAME).examples

BnspExamples ==
  compute_background_negative_subgroup_positive_auc(
    dataset, ret.subgroup, TOXICITY_COLUMN, MODEL_NAME).examples

\* C18: every row of the dataset is in exactly one of the two cross
\* comparison sets; in the set of
\* compute_background_positive_subgroup_negative_auc every false-labeled row
\* is in the subgroup and every true-labeled row is outside it, and in the
\* set of compute_background_negative_subgroup_positive_auc the reverse.
C18_CrossSetsPartition ==
  ret.fn \in {"compute_background_positive_subgroup_negative_auc",
              "compute_background_negative_subgroup_positive_auc"} =>
    LET g == ret.subgroup
        first == IF ret.fn = "compute_background_positive_subgroup_negative_auc"
                 THEN ret.examples ELSE BpsnExamples
        second == IF ret.fn = "compute_background_negative_subgroup_positive_auc"
                  THEN ret.examples ELSE BnspExamples
    IN /\ \A i \in 1..Len(dataset) :
            Count(first, "index", i) + Count(second, "index", i) = 1
       /\ Len(first) + Len(second) = Len(dataset)
       /\ \A k \in 1..Len(first) :
            /\ first[k] = dataset[first[k]["index"]]
            /\ first[k][g] = ~first[k][TOXICITY_COLUMN]
       /\ \A k \in 1..Len(second) :
            /\ second[k] = dataset[second[k]["index"]]
            /\ second[k][g] = second[k][TOXICITY_COLUMN]

\* C18 witness: a dataset of three rows split between the two sets, the
\* first holding a negative subgroup row and a positive background row.
C18_Witness ==
  /\ ret.fn = "compute_background_positive_subgroup_negative_auc"
  /\ Len(dataset) = 3
  /\ Len(ret.examples) = 2
  /\ Len(BnspExamples) = 1
  /\ \E k \in 1..2 : ret.examples[k][ret.subgroup]
  /\ \E k \in 1..2 : ~ret.examples[k][ret.subgroup]

====
